---------------------------- MODULE Spec2Model ----------------------------
(***************************************************************************)
(* A model of fleshfetch.py (the Flesh Clicker game): the persistent game  *)
(* state, the economy handlers (click, purchase, passive tick), the        *)
(* achievement flags, the JSON save files with their legacy locations and  *)
(* the start-up sequence of FleshClicker.__init__.                         *)
(*                                                                         *)
(* Numbers.  The program keeps flesh and costs in Python floats.  The      *)
(* model keeps them as exact rationals with the common denominator Scale:  *)
(* a quantity q of flesh is the integer q * Scale ("units").  Scale is     *)
(* 100^MaxLevel, so base_cost * cost_mult^n is an integer number of units  *)
(* for every n <= MaxLevel and every multiplier whose denominator divides  *)
(* 100 (1.15 = 23/20, 1.18 = 59/50, 1.2 = 6/5).  Float rounding is not     *)
(* modelled.                                                               *)
(*                                                                         *)
(* Dictionaries are functions whose DOMAIN is the set of keys; d.get(k, v) *)
(* is Get(d, k, v).  A file is a record [kind |-> "absent"], [kind |->     *)
(* "corrupt"] (exists, cannot be parsed), [kind |-> "json", data |-> d]    *)
(* or, for the flat counter, [kind |-> "int", value |-> n].                *)
(*                                                                         *)
(* A handler is an operator from a world (the dictionaries in memory, the  *)
(* files, the save calls made so far) to the world it leaves; an action    *)
(* runs one handler to its end.  Three variables record what happened and  *)
(* are read by no handler: writes (the save calls of the last handler), op *)
(* (the last handler and its input) and loaded (what load_json returned at *)
(* the last start-up).  The leaderboard functions take the server's answer *)
(* as an input; exchanges records the requests the last start-up or        *)
(* leaderboard handler sent with the answers it got, and returned what the *)
(* leaderboard functions gave it.                                          *)
(* The settings document and the widgets are not part of this model.       *)
(***************************************************************************)
EXTENDS Integers, Sequences, FiniteSets, TLC

\* ---------------------------------------------------------------- bounds

\* Highest owned count at which the model computes a cost.
MaxLevel == 2
\* Handler invocations in one behaviour of Spec.
MaxSteps == 4
\* Clicks in one behaviour of SpecDefault.
MaxDefaultClicks == 25
\* Purchases in one behaviour of SpecDefault.
MaxDefaultBuys == 2
\* Passive ticks stop in SpecDefault once flesh has reached this much.
DefaultFleshCap == 111
\* Ticks and purchases in one behaviour of SpecMods.
MaxModSteps == 1
\* Clicks in one behaviour of SpecCrit.
MaxCritClicks == 2

\* ---------------------------------------------------------------- numbers

RECURSIVE Pow(_, _)
Pow(b, n) == IF n = 0 THEN 1 ELSE b * Pow(b, n - 1)

Scale == Pow(100, MaxLevel)

\* q flesh, in units
Units(q) == q * Scale

\* A rational p/q
Rat(p, q) == [num |-> p, den |-> q]

\* ------------------------------------------------------------ dictionaries

EmptyDict == [k \in {} |-> 0]

Get(d, k, default) == IF k \in DOMAIN d THEN d[k] ELSE default

\* d[k] = v
Put(d, k, v) == [x \in DOMAIN d \cup {k} |-> IF x = k THEN v ELSE d[x]]

\* dict.update: the keys of e overwrite those of d, the other keys of d stay
Update(d, e) == [x \in DOMAIN d \cup DOMAIN e |-> IF x \in DOMAIN e THEN e[x] ELSE d[x]]

RECURSIVE SumOver(_, _)
SumOver(d, keys) ==
    IF keys = {} THEN 0
    ELSE LET k == CHOOSE x \in keys : TRUE
         IN d[k] + SumOver(d, keys \ {k})

\* ---------------------------------------------------------------- defaults

DEFAULT_STATE ==
    [flesh |-> 0, flesh_per_click |-> Units(1), upgrades_owned |-> EmptyDict,
     total_clicks |-> 0]

AchievementKeys ==
    {"first_click", "ten_clicks", "hundred_clicks", "first_upgrade",
     "five_upgrades", "hundred_flesh", "thousand_flesh"}

DEFAULT_ACHIEVEMENTS ==
    [first_click    |-> [name |-> "First Click", desc |-> "Click the flesh at least once.", unlocked |-> FALSE],
     ten_clicks     |-> [name |-> "Ten Clicks", desc |-> "Click the flesh 10 times.", unlocked |-> FALSE],
     hundred_clicks |-> [name |-> "Hundred Clicks", desc |-> "Click the flesh 100 times.", unlocked |-> FALSE],
     first_upgrade  |-> [name |-> "First Upgrade", desc |-> "Buy your first upgrade.", unlocked |-> FALSE],
     five_upgrades  |-> [name |-> "Upgrade Collector", desc |-> "Own at least 5 upgrades total.", unlocked |-> FALSE],
     hundred_flesh  |-> [name |-> "Flesh Pile", desc |-> "Reach 100 flesh.", unlocked |-> FALSE],
     thousand_flesh |-> [name |-> "Flesh Mountain", desc |-> "Reach 1000 flesh.", unlocked |-> FALSE]]

BASE_UPGRADES ==
    [bigger_clicks  |-> [name |-> "Bigger Clicks", desc |-> "+1 flesh per click.",
                         type |-> "click", category |-> "click", base_cost |-> 10,
                         cost_mult |-> Rat(23, 20), fps |-> 0, fpc |-> Units(1)],
     auto_clicker_1 |-> [name |-> "Autoclicker Mk.I", desc |-> "+1 flesh/sec per unit.",
                         type |-> "auto", category |-> "auto", base_cost |-> 25,
                         cost_mult |-> Rat(23, 20), fps |-> Units(1), fpc |-> 0],
     auto_clicker_2 |-> [name |-> "Autoclicker Mk.II", desc |-> "+2 flesh/sec per unit.",
                         type |-> "auto", category |-> "auto", base_cost |-> 100,
                         cost_mult |-> Rat(59, 50), fps |-> Units(2), fpc |-> 0],
     crit_click     |-> [name |-> "Critical Clicks", desc |-> "Chance for double flesh per click.",
                         type |-> "click", category |-> "click", base_cost |-> 200,
                         cost_mult |-> Rat(6, 5), fps |-> 0, fpc |-> 0]]

\* ------------------------------------------------------------------- files

Absent == [kind |-> "absent"]
Corrupt == [kind |-> "corrupt"]
Json(d) == [kind |-> "json", data |-> d]
IntText(n) == [kind |-> "int", value |-> n]

Paths ==
    {"STATE_FILE", "LEGACY_STATE_FILE", "ACHIEVEMENTS_FILE",
     "LEGACY_ACHIEVEMENTS_FILE", "COUNTER_FILE", "LEGACY_COUNTER_FILE"}

VARIABLES
    phase,         \* "off": no process; "running": the window exists; "failed":
                   \* __init__ raised, there is no window
    timer,         \* "armed": the tick's timeout source is registered; "none"
    state,         \* self.state
    achievements,  \* self.achievements
    upgrades,      \* self.upgrades
    disk,          \* path -> file
    writable,      \* whether a write to the config directory succeeds
    writes,        \* the save calls of the last handler, in order
    loaded,        \* what load_json returned at the last start-up
    op,            \* the last handler and its input
    steps,         \* handler invocations so far
    SUPABASE_URL,  \* the environment's leaderboard endpoint, "" when unset
    SUPABASE_KEY,  \* the environment's access key, "" when unset
    exchanges,     \* the requests of the last leaderboard call and the answers
    returned       \* what submit and fetch returned in the last leaderboard call

vars == <<phase, timer, state, achievements, upgrades, disk, writable, writes, loaded, op, steps,
          SUPABASE_URL, SUPABASE_KEY, exchanges, returned>>

\* The leaderboard's part of the state
board == <<SUPABASE_URL, SUPABASE_KEY, exchanges, returned>>

\* The part of the program a handler reads and writes: the two dictionaries in
\* memory, the files, and the log of the save calls made so far.
World == [state |-> state, achievements |-> achievements, disk |-> disk, writes |-> <<>>]

\* ------------------------------------------------------------- persistence

\* save_json: the call is logged; the file changes when the write succeeds,
\* and a failure is swallowed
save_json(w, path, data) ==
    [w EXCEPT !.writes = Append(@, [path |-> path, content |-> Json(data)]),
              !.disk = IF writable THEN [@ EXCEPT ![path] = Json(data)] ELSE @]

NoLegacy == "None"

\* (mutant) a current file that does not parse falls through to the legacy file
load_json_falls_through(w, path, default, legacy_path) ==
    IF w.disk[path].kind = "json"
    THEN [data |-> w.disk[path].data, w |-> w]
    ELSE IF legacy_path # NoLegacy /\ w.disk[legacy_path].kind # "absent"
    THEN IF w.disk[legacy_path].kind = "json"
         THEN [data |-> w.disk[legacy_path].data,
               w |-> save_json(w, path, w.disk[legacy_path].data)]
         ELSE [data |-> default, w |-> w]
    ELSE [data |-> default, w |-> w]

\* (mutant) the legacy document is returned and not written to the current path
load_json_no_migration(w, path, default, legacy_path) ==
    IF w.disk[path].kind # "absent"
    THEN IF w.disk[path].kind = "json"
         THEN [data |-> w.disk[path].data, w |-> w]
         ELSE [data |-> default, w |-> w]
    ELSE IF legacy_path # NoLegacy /\ w.disk[legacy_path].kind = "json"
    THEN [data |-> w.disk[legacy_path].data, w |-> w]
    ELSE [data |-> default, w |-> w]

\* load_json: [data |-> the document returned, w |-> the world afterwards]
load_json(w, path, default, legacy_path) ==
    IF w.disk[path].kind # "absent"
    THEN IF w.disk[path].kind = "json"
         THEN [data |-> w.disk[path].data, w |-> w]
         ELSE [data |-> default, w |-> w]
    ELSE IF legacy_path # NoLegacy /\ w.disk[legacy_path].kind # "absent"
    THEN IF w.disk[legacy_path].kind = "json"
         THEN [data |-> w.disk[legacy_path].data,
               w |-> save_json(w, path, w.disk[legacy_path].data)]
         ELSE [data |-> default, w |-> w]
    ELSE [data |-> default, w |-> w]

\* load_legacy_counter: the first of the two counter files that exists and
\* holds an integer decides; 0 when there is none
load_legacy_counter(d) ==
    IF d["COUNTER_FILE"].kind = "int" THEN d["COUNTER_FILE"].value
    ELSE IF d["LEGACY_COUNTER_FILE"].kind = "int" THEN d["LEGACY_COUNTER_FILE"].value
    ELSE 0

\* save_legacy_counter: str(int(value)), value in units and never negative
save_legacy_counter(w, value) ==
    [w EXCEPT !.writes = Append(@, [path |-> "COUNTER_FILE", content |-> IntText(value \div Scale)]),
              !.disk = IF writable THEN [@ EXCEPT !["COUNTER_FILE"] = IntText(value \div Scale)] ELSE @]

\* ------------------------------------------------------------ data / stats

\* (mutant) the setter stores the value as it is
ClampFlesh_unclamped(value) == value

\* max(0.0, float(value))
ClampFlesh(value) == IF value < 0 THEN 0 ELSE value

\* the flesh setter
set_flesh(w, value) ==
    LET w1 == [w EXCEPT !.state.flesh = ClampFlesh(value)]
        w2 == save_json(w1, "STATE_FILE", w1.state)
    IN save_legacy_counter(w2, w2.state.flesh)

add_flesh(w, amount) == set_flesh(w, w.state.flesh + amount)

get_upgrade_count(st, uid) == Get(st.upgrades_owned, uid, 0)

\* (mutant) the new count is kept in memory and not saved
set_upgrade_count_unsaved(w, uid, value) ==
    [w EXCEPT !.state.upgrades_owned = Put(@, uid, value)]

set_upgrade_count(w, uid, value) ==
    LET w1 == [w EXCEPT !.state.upgrades_owned = Put(@, uid, value)]
    IN save_json(w1, "STATE_FILE", w1.state)

total_upgrades_owned(st) == SumOver(st.upgrades_owned, DOMAIN st.upgrades_owned)

RECURSIVE SumYield(_, _, _, _, _)
SumYield(upg, st, type, field, ids) ==
    IF ids = {} THEN 0
    ELSE LET uid == CHOOSE x \in ids : TRUE
             u == upg[uid]
             rest == SumYield(upg, st, type, field, ids \ {uid})
         IN IF Get(u, "type", "") = type
            THEN Get(u, field, 0) * get_upgrade_count(st, uid) + rest
            ELSE rest

\* (mutant) the fps of every upgrade counts, whatever its type
compute_fps_any_type(upg, st) ==
    SumOver([uid \in DOMAIN upg |-> Get(upg[uid], "fps", 0) * get_upgrade_count(st, uid)],
            DOMAIN upg)

compute_fps(upg, st) == SumYield(upg, st, "auto", "fps", DOMAIN upg)

compute_extra_fpc(upg, st) == SumYield(upg, st, "click", "fpc", DOMAIN upg)

effective_fpc(upg, st) == Get(st, "flesh_per_click", Units(1)) + compute_extra_fpc(upg, st)

\* (mutant) base * mult * owned
get_upgrade_cost_linear(upg, uid, owned) ==
    LET u == upg[uid]
    IN (u.base_cost * Scale * u.cost_mult.num * owned) \div u.cost_mult.den

\* base * (mult ** owned), in units; exact for owned <= MaxLevel
get_upgrade_cost(upg, uid, owned) ==
    LET u == upg[uid]
    IN u.base_cost * (Scale \div Pow(u.cost_mult.den, owned)) * Pow(u.cost_mult.num, owned)

\* u["base_cost"] and u["cost_mult"]: a definition without one of them makes
\* get_upgrade_cost raise KeyError
get_upgrade_cost_raises(upg, uid) ==
    ~({"base_cost", "cost_mult"} \subseteq DOMAIN upg[uid])

\* refresh_upgrades_ui builds a row for every definition of the catalog, from
\* u['name'], the cost and u["desc"]: whether it raises KeyError
refresh_upgrades_ui_raises(upg) ==
    \E uid \in DOMAIN upg :
       \/ ~({"name", "desc"} \subseteq DOMAIN upg[uid])
       \/ get_upgrade_cost_raises(upg, uid)

\* ------------------------------------------------------------ achievements

\* (mutant) every call on a known key sets the flag and saves
unlock_achievement_always_saves(w, key) ==
    IF key \notin DOMAIN w.achievements THEN w
    ELSE LET w1 == [w EXCEPT !.achievements[key] = Put(@, "unlocked", TRUE)]
         IN save_json(w1, "ACHIEVEMENTS_FILE", w1.achievements)

unlock_achievement(w, key) ==
    IF key \notin DOMAIN w.achievements THEN w
    ELSE IF Get(w.achievements[key], "unlocked", FALSE) THEN w
    ELSE LET w1 == [w EXCEPT !.achievements[key] = Put(@, "unlocked", TRUE)]
         IN save_json(w1, "ACHIEVEMENTS_FILE", w1.achievements)

\* (mutant) the handler's test is dropped
unlock_if_always(w, cond, key) == unlock_achievement(w, key)

unlock_if(w, cond, key) == IF cond THEN unlock_achievement(w, key) ELSE w

\* ----------------------------------------------------------------- handlers

on_timer_tick(w) ==
    LET fps == compute_fps(upgrades, w.state)
    IN IF fps > 0 THEN add_flesh(w, fps) ELSE w

\* (mutant) return False: GLib removes the source after the call
on_timer_tick_returns_false == FALSE

\* "return True  # keep timer"
on_timer_tick_returns == TRUE

\* (mutant) the purchase goes ahead whatever the flesh at hand
on_buy_upgrade_clicked_unchecked(w, uid) ==
    LET owned == get_upgrade_count(w.state, uid)
        cost == get_upgrade_cost(upgrades, uid, owned)
        w1 == add_flesh(w, 0 - cost)
        w2 == set_upgrade_count(w1, uid, owned + 1)
        total == total_upgrades_owned(w2.state)
        w3 == unlock_if(w2, total >= 1, "first_upgrade")
    IN unlock_if(w3, total >= 5, "five_upgrades")

\* (mutant) a purchase needs more flesh than the cost
on_buy_upgrade_clicked_strict(w, uid) ==
    LET owned == get_upgrade_count(w.state, uid)
        cost == get_upgrade_cost(upgrades, uid, owned)
    IN IF w.state.flesh <= cost THEN w
       ELSE LET w1 == add_flesh(w, 0 - cost)
                w2 == set_upgrade_count(w1, uid, owned + 1)
                total == total_upgrades_owned(w2.state)
                w3 == unlock_if(w2, total >= 1, "first_upgrade")
            IN unlock_if(w3, total >= 5, "five_upgrades")

on_buy_upgrade_clicked(w, uid) ==
    LET owned == get_upgrade_count(w.state, uid)
        cost == get_upgrade_cost(upgrades, uid, owned)
    IN IF w.state.flesh < cost THEN w
       ELSE LET w1 == add_flesh(w, 0 - cost)
                w2 == set_upgrade_count(w1, uid, owned + 1)
                total == total_upgrades_owned(w2.state)
                w3 == unlock_if(w2, total >= 1, "first_upgrade")
            IN unlock_if(w3, total >= 5, "five_upgrades")

CritPerLevel == 5

\* (mutant) 5% whatever the count, once one is owned
crit_chance_flat(st) ==
    IF get_upgrade_count(st, "crit_click") > 0 THEN CritPerLevel ELSE 0

\* 0.05 * count, in percent
crit_chance(st) ==
    LET count == get_upgrade_count(st, "crit_click")
    IN IF count > 0 THEN CritPerLevel * count ELSE 0

\* random.random() is in [0, 1): whether some roll makes the click critical
\* (crit) or not
CanRoll(st, crit) == IF crit THEN crit_chance(st) > 0 ELSE crit_chance(st) < 100

\* (mutant) a critical hit is not doubled
on_click_never_doubles(w, crit) ==
    LET fpc == effective_fpc(upgrades, w.state)
        w1 == add_flesh(w, fpc)
        w2 == [w1 EXCEPT !.state.total_clicks = @ + 1]
        w3 == save_json(w2, "STATE_FILE", w2.state)
        w4 == unlock_if(w3, w3.state.total_clicks >= 1, "first_click")
        w5 == unlock_if(w4, w4.state.total_clicks >= 10, "ten_clicks")
        w6 == unlock_if(w5, w5.state.total_clicks >= 100, "hundred_clicks")
        w7 == unlock_if(w6, w6.state.flesh >= Units(100), "hundred_flesh")
    IN unlock_if(w7, w7.state.flesh >= Units(1000), "thousand_flesh")

on_click(w, crit) ==
    LET fpc == effective_fpc(upgrades, w.state)
        w1 == add_flesh(w, IF crit THEN 2 * fpc ELSE fpc)
        w2 == [w1 EXCEPT !.state.total_clicks = @ + 1]
        w3 == save_json(w2, "STATE_FILE", w2.state)
        w4 == unlock_if(w3, w3.state.total_clicks >= 1, "first_click")
        w5 == unlock_if(w4, w4.state.total_clicks >= 10, "ten_clicks")
        w6 == unlock_if(w5, w5.state.total_clicks >= 100, "hundred_clicks")
        w7 == unlock_if(w6, w6.state.flesh >= Units(100), "hundred_flesh")
    IN unlock_if(w7, w7.state.flesh >= Units(1000), "thousand_flesh")

\* -------------------------------------------------------------- leaderboard

\* (mutant) either of the two variables is enough
leaderboard_configured_either(url, key) == url # "" \/ key # ""

\* _leaderboard_configured: bool(SUPABASE_URL and SUPABASE_KEY)
leaderboard_configured(url, key) == url # "" /\ key # ""

NotConfiguredText == "SUPABASE_URL / SUPABASE_KEY not configured in environment"

\* What requests.post / requests.get does: it raises, or it returns a response
\* with a status and a body; a body is the text of a JSON list, the text of a
\* JSON object, or a text that is no JSON
TransportError == [kind |-> "raise", text |-> "connection refused"]
Response(status, body) == [kind |-> "response", status_code |-> status, body |-> body]
ListBody(rows) == [json |-> "list", rows |-> rows, text |-> "[..]"]
ObjectBody == [json |-> "object", rows |-> <<>>, text |-> "{..}"]
NoJsonBody == [json |-> "none", rows |-> <<>>, text |-> "<html>"]

None == [kind |-> "none"]
Text(s) == [kind |-> "str", text |-> s]
Data(body) == [kind |-> "data", json |-> body.json, rows |-> body.rows]
EmptyData == [kind |-> "data", json |-> "object", rows |-> <<>>]

HttpText(resp) == "HTTP " \o ToString(resp.status_code) \o ": " \o resp.body.text

\* submit_leaderboard_entry: [ok, info] and the exchanges it made; resp is
\* what requests.post does when it is called
submit_leaderboard_entry(url, key, username, flesh_amount, resp) ==
    IF ~leaderboard_configured(url, key)
    THEN [ok |-> FALSE, info |-> Text(NotConfiguredText), exchanges |-> <<>>]
    ELSE LET sent == << [method |-> "POST", username |-> username,
                         flesh_amount |-> flesh_amount, answer |-> resp] >>
         IN IF resp.kind = "raise"
            THEN [ok |-> FALSE, info |-> Text("Request error: " \o resp.text), exchanges |-> sent]
            ELSE IF resp.status_code \notin {200, 201}
            THEN [ok |-> FALSE, info |-> Text(HttpText(resp)), exchanges |-> sent]
            ELSE IF resp.body.json = "none"
            THEN [ok |-> TRUE, info |-> EmptyData, exchanges |-> sent]
            ELSE [ok |-> TRUE, info |-> Data(resp.body), exchanges |-> sent]

\* (mutant) a decoded body is returned whatever its shape
fetch_leaderboard_entries_any_shape(url, key, resp) ==
    IF ~leaderboard_configured(url, key)
    THEN [ok |-> FALSE, error |-> NotConfiguredText, rows |-> <<>>, exchanges |-> <<>>]
    ELSE LET sent == << [method |-> "GET", username |-> "", flesh_amount |-> 0,
                         answer |-> resp] >>
         IN IF resp.kind = "raise"
            THEN [ok |-> FALSE, error |-> "Request error: " \o resp.text, rows |-> <<>>,
                  exchanges |-> sent]
            ELSE IF resp.status_code # 200
            THEN [ok |-> FALSE, error |-> HttpText(resp), rows |-> <<>>, exchanges |-> sent]
            ELSE IF resp.body.json = "none"
            THEN [ok |-> FALSE, error |-> "JSON decode error: " \o resp.body.text,
                  rows |-> <<>>, exchanges |-> sent]
            ELSE [ok |-> TRUE, error |-> "", rows |-> resp.body.rows, exchanges |-> sent]

\* fetch_leaderboard_entries: [ok, error, rows] and the exchanges it made
fetch_leaderboard_entries(url, key, resp) ==
    IF ~leaderboard_configured(url, key)
    THEN [ok |-> FALSE, error |-> NotConfiguredText, rows |-> <<>>, exchanges |-> <<>>]
    ELSE LET sent == << [method |-> "GET", username |-> "", flesh_amount |-> 0,
                         answer |-> resp] >>
         IN IF resp.kind = "raise"
            THEN [ok |-> FALSE, error |-> "Request error: " \o resp.text, rows |-> <<>>,
                  exchanges |-> sent]
            ELSE IF resp.status_code # 200
            THEN [ok |-> FALSE, error |-> HttpText(resp), rows |-> <<>>, exchanges |-> sent]
            ELSE IF resp.body.json = "none"
            THEN [ok |-> FALSE, error |-> "JSON decode error: " \o resp.body.text,
                  rows |-> <<>>, exchanges |-> sent]
            ELSE IF resp.body.json # "list"
            THEN [ok |-> FALSE, error |-> "Unexpected response format", rows |-> <<>>,
                  exchanges |-> sent]
            ELSE [ok |-> TRUE, error |-> "", rows |-> resp.body.rows, exchanges |-> sent]

\* on_refresh_leaderboard_clicked: load_leaderboard
on_refresh_leaderboard_clicked(resp) ==
    LET f == fetch_leaderboard_entries(SUPABASE_URL, SUPABASE_KEY, resp)
    IN /\ returned' = [submit |-> None, fetch |-> [ok |-> f.ok, error |-> f.error, rows |-> f.rows]]
       /\ exchanges' = f.exchanges

\* on_add_leaderboard_clicked: submit int(self.flesh) under the user's name
\* and, when that went through, load the leaderboard again
on_add_leaderboard_clicked(username, resp, resp2) ==
    LET r == submit_leaderboard_entry(SUPABASE_URL, SUPABASE_KEY, username,
                                      state.flesh \div Scale, resp)
        f == fetch_leaderboard_entries(SUPABASE_URL, SUPABASE_KEY, resp2)
    IN IF r.ok
       THEN /\ returned' = [submit |-> [ok |-> r.ok, info |-> r.info],
                          fetch |-> [ok |-> f.ok, error |-> f.error, rows |-> f.rows]]
            /\ exchanges' = r.exchanges \o f.exchanges
       ELSE /\ returned' = [submit |-> [ok |-> r.ok, info |-> r.info], fetch |-> None]
            /\ exchanges' = r.exchanges

\* The server's answers that matter: any where a request is made
Rows == { <<>>, << [username |-> "ada", flesh_amount |-> 9000] >> }
Bodies == {ListBody(rows) : rows \in Rows} \cup {ObjectBody, NoJsonBody}
Statuses == {200, 201, 204, 401, 500}
Responses == {TransportError} \cup {Response(st, b) : st \in Statuses, b \in Bodies}
Answers(url, key) == IF leaderboard_configured(url, key) THEN Responses ELSE {TransportError}

\* An environment without the leaderboard variables: no request is ever made
NoLeaderboard ==
    /\ SUPABASE_URL = ""
    /\ SUPABASE_KEY = ""
    /\ exchanges = <<>>
    /\ returned = [submit |-> None, fetch |-> None]

\* ------------------------------------------------------------- mod loading

\* What a mod's register(self) does: a sequence of calls on the window, cut
\* short by the first exception.  A catalog is [upgrades, achievements].
\* (mutant) a registration replaces the definition
register_upgrade_replaces(cat, uid, data) == [cat EXCEPT !.upgrades = Put(@, uid, data)]

register_upgrade(cat, uid, data) ==
    IF uid \in DOMAIN cat.upgrades
    THEN [cat EXCEPT !.upgrades[uid] = Update(@, data)]
    ELSE [cat EXCEPT !.upgrades = Put(@, uid, data)]

register_achievement(cat, key, data) ==
    IF key \in DOMAIN cat.achievements
    THEN [cat EXCEPT !.achievements[key] = Update(@, data)]
    ELSE [cat EXCEPT !.achievements = Put(@, key, data)]

RegUpgrade(uid, data) == [fn |-> "register_upgrade", id |-> uid, data |-> data]
RegAchievement(key, data) == [fn |-> "register_achievement", id |-> key, data |-> data]
Raise == [fn |-> "raise", id |-> "", data |-> EmptyDict]

\* exec_module and register(self) of one mod, inside the try of load_mods
RECURSIVE run_mod(_, _)
run_mod(cat, calls) ==
    IF calls = <<>> THEN cat
    ELSE LET c == Head(calls)
         IN IF c.fn = "raise" THEN cat
            ELSE IF c.fn = "register_upgrade"
            THEN run_mod(register_upgrade(cat, c.id, c.data), Tail(calls))
            ELSE run_mod(register_achievement(cat, c.id, c.data), Tail(calls))

\* load_mods: the mods of the system directory, then those of the user directory
RECURSIVE load_mods(_, _)
load_mods(cat, mods) ==
    IF mods = <<>> THEN cat ELSE load_mods(run_mod(cat, Head(mods)), Tail(mods))

\* (mutant) the user directory is listed before the system directory
mods_in_order_user_first(systemMods, userMods) == userMods \o systemMods

\* for mods_dir in (SYSTEM_MODS_DIR, USER_MODS_DIR): the mods in the order in
\* which load_mods runs them
mods_in_order(systemMods, userMods) == systemMods \o userMods

\* ----------------------------------------------------------------- start-up

\* (mutant) every key of the default is assigned, present in the document or not
FillDefaults_overwrites(doc, default) == Update(doc, default)

\* "ensure keys exist": the keys of the default that the document lacks
FillDefaults(doc, default) ==
    [k \in DOMAIN doc \cup DOMAIN default |-> IF k \in DOMAIN doc THEN doc[k] ELSE default[k]]

\* "sync flesh with legacy counter"
SeedFromCounter(st, d) ==
    IF st.flesh = 0
    THEN LET legacy == load_legacy_counter(d)
         IN IF legacy > 0 THEN [st EXCEPT !.flesh = Units(legacy)] ELSE st
    ELSE st

Memoryless ==
    /\ state = DEFAULT_STATE
    /\ achievements = DEFAULT_ACHIEVEMENTS
    /\ upgrades = BASE_UPGRADES
    /\ loaded = [state |-> DEFAULT_STATE, achievements |-> DEFAULT_ACHIEVEMENTS]

\* FleshClicker.__init__ with the mod directories holding systemMods and
\* userMods; build_ui does the first load of the leaderboard and ends with
\* refresh_upgrades_ui, whose exception leaves __init__ before the window is
\* presented and before the timer is registered (phase "failed")
FleshClicker_init(systemMods, userMods) ==
    /\ phase = "off"
    /\ LET w0 == [state |-> DEFAULT_STATE, achievements |-> DEFAULT_ACHIEVEMENTS,
                  disk |-> disk, writes |-> <<>>]
           r1 == load_json(w0, "STATE_FILE", DEFAULT_STATE, "LEGACY_STATE_FILE")
           r2 == load_json(r1.w, "ACHIEVEMENTS_FILE", DEFAULT_ACHIEVEMENTS,
                           "LEGACY_ACHIEVEMENTS_FILE")
           st == SeedFromCounter(FillDefaults(r1.data, DEFAULT_STATE), r2.w.disk)
           cat == load_mods([upgrades |-> BASE_UPGRADES,
                             achievements |-> FillDefaults(r2.data, DEFAULT_ACHIEVEMENTS)],
                            mods_in_order(systemMods, userMods))
       IN /\ state' = st
          /\ achievements' = cat.achievements
          /\ upgrades' = cat.upgrades
          /\ disk' = r2.w.disk
          /\ writes' = r2.w.writes
          /\ loaded' = [state |-> r1.data, achievements |-> r2.data]
          /\ phase' = IF refresh_upgrades_ui_raises(cat.upgrades) THEN "failed" ELSE "running"
          /\ timer' = IF refresh_upgrades_ui_raises(cat.upgrades) THEN "none" ELSE "armed"
    /\ \E resp \in Answers(SUPABASE_URL, SUPABASE_KEY) : on_refresh_leaderboard_clicked(resp)
    /\ UNCHANGED <<writable, SUPABASE_URL, SUPABASE_KEY>>

\* The process ends: what was in memory is gone
Exit ==
    /\ phase \in {"running", "failed"}
    /\ phase' = "off"
    /\ timer' = "none"
    /\ state' = DEFAULT_STATE
    /\ achievements' = DEFAULT_ACHIEVEMENTS
    /\ upgrades' = BASE_UPGRADES
    /\ loaded' = [state |-> DEFAULT_STATE, achievements |-> DEFAULT_ACHIEVEMENTS]
    /\ writes' = <<>>
    /\ exchanges' = <<>>
    /\ returned' = [submit |-> None, fetch |-> None]
    /\ UNCHANGED <<disk, writable, SUPABASE_URL, SUPABASE_KEY>>

\* A handler's result becomes the program's state
Commit(w) ==
    /\ state' = w.state
    /\ achievements' = w.achievements
    /\ disk' = w.disk
    /\ writes' = w.writes
    /\ UNCHANGED <<phase, upgrades, writable, loaded, board>>

DoClick ==
    /\ phase = "running"
    /\ \E crit \in BOOLEAN :
          /\ CanRoll(state, crit)
          /\ Commit(on_click(World, crit))
          /\ op' = [name |-> "click", arg |-> IF crit THEN "crit" ELSE "normal"]
    /\ UNCHANGED timer

\* GLib runs the callback of a registered timeout source and keeps the source
\* when the callback returns True
DoTick ==
    /\ phase = "running"
    /\ timer = "armed"
    /\ Commit(on_timer_tick(World))
    /\ timer' = IF on_timer_tick_returns THEN "armed" ELSE "none"
    /\ op' = [name |-> "tick", arg |-> ""]

\* Buy buttons exist for the ids of the catalog
DoBuy(uid) ==
    /\ phase = "running"
    /\ uid \in DOMAIN upgrades
    /\ get_upgrade_count(state, uid) <= MaxLevel
    /\ Commit(on_buy_upgrade_clicked(World, uid))
    /\ op' = [name |-> "buy", arg |-> uid]
    /\ UNCHANGED timer

DoUnlock(key) ==
    /\ phase = "running"
    /\ Commit(unlock_achievement(World, key))
    /\ op' = [name |-> "unlock", arg |-> key]
    /\ UNCHANGED timer

\* ------------------------------------------------------------------ inputs

StateDoc(f, fpc, owned, clicks) ==
    [flesh |-> Units(f), flesh_per_click |-> Units(fpc), upgrades_owned |-> owned,
     total_clicks |-> clicks]

\* Saved games: one purchase away from the first upgrade, one step below the
\* 100-flesh and 10-click marks, one step below the 1000-flesh, 100-click and
\* 5-upgrade marks, and one whose base yield per click is negative.  The
\* program writes flesh only through the clamping setter, so a saved flesh is
\* never negative; flesh_per_click it only reads (effective_fpc) and writes
\* back as loaded, so its value and its sign are the document's.
SavedTen == StateDoc(10, 1, EmptyDict, 0)
SavedNear == StateDoc(99, 1, [auto_clicker_1 |-> 1], 9)
SavedRich == StateDoc(999, 1, [bigger_clicks |-> 1, auto_clicker_1 |-> 2, crit_click |-> 1], 99)
SavedDrain == StateDoc(1, -1, EmptyDict, 3)
\* A document of an older version, without the later fields
SavedOld == [flesh |-> Units(10)]
SavedZero == StateDoc(0, 1, [auto_clicker_1 |-> 1], 2)

Unlocked(doc, keys) ==
    [k \in DOMAIN doc |-> IF k \in keys THEN Put(doc[k], "unlocked", TRUE) ELSE doc[k]]

SavedAchievements == Unlocked(DEFAULT_ACHIEVEMENTS, {"first_click"})
\* An achievements document of an older version, with fewer entries
OldAchievements ==
    [k \in {"first_click", "ten_clicks"} |->
        Put(DEFAULT_ACHIEVEMENTS[k], "unlocked", k = "first_click")]

\* Mods.  ModBonus adds an achievement of its own, in the format of the
\* built-in ones; ModRename overrides the texts of a built-in one in that format.
ModBonus ==
    << RegAchievement("mod_bonus", [name |-> "Bonus", desc |-> "Added by a mod.", unlocked |-> FALSE]) >>
ModRename ==
    << RegAchievement("first_click", [name |-> "First Blood", desc |-> "Renamed by a mod.", unlocked |-> FALSE]) >>

ModDirs ==
    { [label |-> "none", system |-> <<>>, user |-> <<>>],
      [label |-> "bonus", system |-> <<>>, user |-> <<ModBonus>>],
      [label |-> "rename", system |-> <<ModRename>>, user |-> <<>>] }

\* ModHook adds a click upgrade that also carries an fps; ModDiscount
\* overrides one field of a built-in upgrade; ModBroken registers an upgrade
\* and an achievement and then raises; ModCrash raises while it is loaded.
ModHook ==
    << RegUpgrade("meat_hook",
                  [name |-> "Meat Hook", desc |-> "+1 flesh per click.", type |-> "click",
                   category |-> "click", base_cost |-> 20, cost_mult |-> Rat(6, 5),
                   fps |-> Units(3), fpc |-> Units(1)]) >>
ModDiscount == << RegUpgrade("bigger_clicks", [base_cost |-> 5]) >>
ModBroken ==
    << RegUpgrade("flesh_farm",
                  [name |-> "Flesh Farm", desc |-> "+5 flesh/sec per unit.", type |-> "auto",
                   category |-> "auto", base_cost |-> 50, cost_mult |-> Rat(23, 20),
                   fps |-> Units(5), fpc |-> 0]),
       RegAchievement("mod_broken", [name |-> "Broken", desc |-> "Added by a mod that fails.",
                                     unlocked |-> FALSE]),
       Raise >>
ModCrash == << Raise >>
\* ModPartial registers an upgrade of its own without base_cost and cost_mult
ModPartial ==
    << RegUpgrade("scrap_heap",
                  [name |-> "Scrap Heap", desc |-> "+1 flesh/sec per unit.", type |-> "auto",
                   fps |-> Units(1)]) >>
\* ModSale overrides two fields of the upgrade that ModDiscount overrides
ModSale == << RegUpgrade("bigger_clicks", [base_cost |-> 8, desc |-> "On sale."]) >>

Mods == {ModBonus, ModRename, ModHook, ModDiscount, ModBroken, ModCrash, ModSale, ModPartial}

\* What a mod directory may list: os.listdir gives the files in any order
OneMod == {<<>>} \cup {<<m>> : m \in Mods}
TwoMods == {p \in Mods \X Mods : p[1] # p[2]}

\* A game saved by a run that had ModHook and a working flesh_farm mod
SavedHooked == StateDoc(50, 1, [auto_clicker_1 |-> 1, meat_hook |-> 2, flesh_farm |-> 1], 3)

\* Games saved with n levels of crit_click, at the edges of the claim
CritLevels == {0, 1, 19, 20, 21}
SavedCrit(n) ==
    StateDoc(40, 1, IF n = 0 THEN EmptyDict ELSE [crit_click |-> n], 12)

\* Keys the unlock operation is called with: a built-in one, a mod's, an unknown one
UnlockKeys == {"first_click", "mod_bonus", "no_such_key"}

DiskOf(sf, lsf, af, laf, cf, lcf) ==
    [p \in Paths |->
        CASE p = "STATE_FILE" -> sf
          [] p = "LEGACY_STATE_FILE" -> lsf
          [] p = "ACHIEVEMENTS_FILE" -> af
          [] p = "LEGACY_ACHIEVEMENTS_FILE" -> laf
          [] p = "COUNTER_FILE" -> cf
          [] OTHER -> lcf]

NoOp == [name |-> "none", arg |-> ""]

\* ---------------------------------------------------------- specification
\* Spec: the life of an installation: start-ups, clicks, ticks, purchases,
\* unlock calls and exits, from a saved game.

Init ==
    /\ phase = "off"
    /\ timer = "none"
    /\ Memoryless
    /\ \E sf \in {Absent, Json(SavedTen), Json(SavedNear), Json(SavedRich), Json(SavedDrain),
                   Json(SavedOld)},
          af \in {Absent, Json(SavedAchievements)} :
          disk = DiskOf(sf, Absent, af, Absent, Absent, Absent)
    /\ writable \in BOOLEAN
    /\ writes = <<>>
    /\ op = NoOp
    /\ steps = 0
    /\ NoLeaderboard

Budget == steps < MaxSteps
Tally == steps' = steps + 1

Startup ==
    /\ Budget
    /\ \E m \in ModDirs :
          /\ FleshClicker_init(m.system, m.user)
          /\ op' = [name |-> "startup", arg |-> m.label]
    /\ Tally

Click == Budget /\ DoClick /\ Tally

Tick == Budget /\ DoTick /\ Tally

Buy == Budget /\ (\E uid \in DOMAIN upgrades : DoBuy(uid)) /\ Tally

Unlock == Budget /\ (\E key \in UnlockKeys : DoUnlock(key)) /\ Tally

Quit == Budget /\ Exit /\ op' = [name |-> "quit", arg |-> ""] /\ Tally

Next == Startup \/ Click \/ Tick \/ Buy \/ Unlock \/ Quit

Spec == Init /\ [][Next]_vars

\* SpecDefault: a fresh installation (no file, no mod) after its first
\* start-up, and the clicks, ticks and purchases of that one run.

InitDefault ==
    /\ phase = "running"
    /\ timer = "armed"
    /\ Memoryless
    /\ disk = DiskOf(Absent, Absent, Absent, Absent, Absent, Absent)
    /\ writable = TRUE
    /\ writes = <<>>
    /\ op = [name |-> "startup", arg |-> "none"]
    /\ steps = 0
    /\ SUPABASE_URL = ""
    /\ SUPABASE_KEY = ""
    /\ exchanges = <<>>
    /\ returned = [submit |-> None,
                   fetch |-> [ok |-> FALSE, error |-> NotConfiguredText, rows |-> <<>>]]

DefaultClick == state.total_clicks < MaxDefaultClicks /\ DoClick /\ UNCHANGED steps

DefaultTick == state.flesh < Units(DefaultFleshCap) /\ DoTick /\ UNCHANGED steps

DefaultBuy ==
    /\ total_upgrades_owned(state) < MaxDefaultBuys
    /\ \E uid \in DOMAIN upgrades : DoBuy(uid)
    /\ UNCHANGED steps

NextDefault == DefaultClick \/ DefaultTick \/ DefaultBuy

SpecDefault == InitDefault /\ [][NextDefault]_vars

\* SpecStartup: start-ups and exits over the files an installation may hold.

InitStartup ==
    /\ phase = "off"
    /\ timer = "none"
    /\ Memoryless
    /\ \E sf \in {Absent, Corrupt, Json(SavedNear), Json(SavedZero), Json(SavedOld)},
          lsf \in {Absent, Corrupt, Json(SavedTen)},
          af \in {Absent, Corrupt, Json(SavedAchievements)},
          laf \in {Absent, Corrupt, Json(OldAchievements)},
          cf \in {Absent, Corrupt, IntText(0), IntText(7)},
          lcf \in {Absent, IntText(5)} :
          disk = DiskOf(sf, lsf, af, laf, cf, lcf)
    /\ writable \in BOOLEAN
    /\ writes = <<>>
    /\ op = NoOp
    /\ steps = 0
    /\ NoLeaderboard

Boot ==
    /\ FleshClicker_init(<<>>, <<>>)
    /\ op' = [name |-> "startup", arg |-> "none"]
    /\ UNCHANGED steps

Shutdown == Exit /\ op' = [name |-> "quit", arg |-> ""] /\ UNCHANGED steps

NextStartup == Boot \/ Shutdown

SpecStartup == InitStartup /\ [][NextStartup]_vars

\* SpecCrit: clicks in games that own none, some and many levels of crit_click.

InitCrit ==
    /\ phase = "off"
    /\ timer = "none"
    /\ Memoryless
    /\ \E n \in CritLevels :
          disk = DiskOf(Json(SavedCrit(n)), Absent, Absent, Absent, Absent, Absent)
    /\ writable \in BOOLEAN
    /\ writes = <<>>
    /\ op = NoOp
    /\ steps = 0
    /\ NoLeaderboard

CritBoot ==
    /\ FleshClicker_init(<<>>, <<>>)
    /\ op' = [name |-> "startup", arg |-> "none"]
    /\ UNCHANGED steps

CritClick == steps < MaxCritClicks /\ DoClick /\ Tally

CritQuit == Exit /\ op' = [name |-> "quit", arg |-> ""] /\ UNCHANGED steps

NextCrit == CritBoot \/ CritClick \/ CritQuit

SpecCrit == InitCrit /\ [][NextCrit]_vars

\* SpecMods: start-ups with every content of the two mod directories, followed
\* by a tick or a purchase.

InitMods ==
    /\ phase = "off"
    /\ timer = "none"
    /\ Memoryless
    /\ \E sf \in {Json(SavedTen), Json(SavedHooked)} :
          disk = DiskOf(sf, Absent, Absent, Absent, Absent, Absent)
    /\ writable = TRUE
    /\ writes = <<>>
    /\ op = NoOp
    /\ steps = 0
    /\ NoLeaderboard

ModBoot ==
    /\ \E system \in OneMod, user \in OneMod \cup TwoMods :
          /\ FleshClicker_init(system, user)
          /\ op' = [name |-> "startup", arg |-> [system |-> system, user |-> user]]
    /\ UNCHANGED steps

ModTick == steps < MaxModSteps /\ DoTick /\ Tally

ModBuy == steps < MaxModSteps /\ (\E uid \in DOMAIN upgrades : DoBuy(uid)) /\ Tally

ModQuit == Exit /\ op' = [name |-> "quit", arg |-> ""] /\ UNCHANGED steps

NextMods == ModBoot \/ ModTick \/ ModBuy \/ ModQuit

SpecMods == InitMods /\ [][NextMods]_vars

\* SpecLeaderboard: start-ups, submissions and refreshes of the leaderboard
\* under each environment, with each answer of the server.

Usernames == {"ada", "unknown"}

InitLeaderboard ==
    /\ phase = "off"
    /\ timer = "none"
    /\ Memoryless
    /\ \E sf \in {Absent, Json(SavedNear), Json(SavedRich)} :
          disk = DiskOf(sf, Absent, Absent, Absent, Absent, Absent)
    /\ writable = TRUE
    /\ writes = <<>>
    /\ op = NoOp
    /\ steps = 0
    /\ SUPABASE_URL \in {"", "https://example.supabase.co/"}
    /\ SUPABASE_KEY \in {"", "anon-key"}
    /\ exchanges = <<>>
    /\ returned = [submit |-> None, fetch |-> None]

BoardBoot ==
    /\ FleshClicker_init(<<>>, <<>>)
    /\ op' = [name |-> "startup", arg |-> "none"]
    /\ UNCHANGED steps

BoardAdd ==
    /\ phase = "running"
    /\ \E username \in Usernames, resp, resp2 \in Answers(SUPABASE_URL, SUPABASE_KEY) :
          /\ on_add_leaderboard_clicked(username, resp, resp2)
          /\ op' = [name |-> "add_leaderboard", arg |-> username]
    /\ UNCHANGED <<phase, timer, state, achievements, upgrades, disk, writable, writes,
                   loaded, steps, SUPABASE_URL, SUPABASE_KEY>>

BoardRefresh ==
    /\ phase = "running"
    /\ \E resp \in Answers(SUPABASE_URL, SUPABASE_KEY) : on_refresh_leaderboard_clicked(resp)
    /\ op' = [name |-> "refresh_leaderboard", arg |-> ""]
    /\ UNCHANGED <<phase, timer, state, achievements, upgrades, disk, writable, writes,
                   loaded, steps, SUPABASE_URL, SUPABASE_KEY>>

BoardQuit == Exit /\ op' = [name |-> "quit", arg |-> ""] /\ UNCHANGED steps

NextLeaderboard == BoardBoot \/ BoardAdd \/ BoardRefresh \/ BoardQuit

SpecLeaderboard == InitLeaderboard /\ [][NextLeaderboard]_vars

\* SpecTimer: the event loop with the tick's timeout source and the
\* leaderboard buttons, in games without passive yield.  The main loop
\* dispatches a source that stays ready, and every handler returns (the
\* requests have a timeout), hence the weak fairness of the tick.

InitTimer ==
    /\ phase = "off"
    /\ timer = "none"
    /\ Memoryless
    /\ \E sf \in {Absent, Json(SavedTen)} :
          disk = DiskOf(sf, Absent, Absent, Absent, Absent, Absent)
    /\ writable = TRUE
    /\ writes = <<>>
    /\ op = NoOp
    /\ steps = 0
    /\ SUPABASE_URL \in {"", "https://example.supabase.co/"}
    /\ SUPABASE_KEY \in {"", "anon-key"}
    /\ exchanges = <<>>
    /\ returned = [submit |-> None, fetch |-> None]

TimerBoot ==
    /\ FleshClicker_init(<<>>, <<>>)
    /\ op' = [name |-> "startup", arg |-> "none"]
    /\ UNCHANGED steps

TimerTick == DoTick /\ UNCHANGED steps

TimerAdd ==
    /\ phase = "running"
    /\ \E resp, resp2 \in Answers(SUPABASE_URL, SUPABASE_KEY) :
          on_add_leaderboard_clicked("ada", resp, resp2)
    /\ op' = [name |-> "add_leaderboard", arg |-> "ada"]
    /\ UNCHANGED <<phase, timer, state, achievements, upgrades, disk, writable, writes,
                   loaded, steps, SUPABASE_URL, SUPABASE_KEY>>

TimerRefresh == BoardRefresh

TimerQuit == Exit /\ op' = [name |-> "quit", arg |-> ""] /\ UNCHANGED steps

NextTimer == TimerBoot \/ TimerTick \/ TimerAdd \/ TimerRefresh \/ TimerQuit

SpecTimer == InitTimer /\ [][NextTimer]_vars /\ WF_vars(TimerTick)

\* ------------------------------------------------------------------ claims

IsUnlocked(ach, key) == key \in DOMAIN ach /\ Get(ach[key], "unlocked", FALSE)

\* The cost the purchase handler computes for uid in the current state
CostNow(uid) == get_upgrade_cost(upgrades, uid, get_upgrade_count(state, uid))

\* The step is a run of the purchase handler on uid
BuyStep(uid) == phase = "running" /\ op'.name = "buy" /\ op'.arg = uid /\ steps' # steps

\* C1: flesh is never negative, whatever saved game was loaded and whatever
\* clicks, ticks and purchases followed.
C1_FleshNeverNegative == state.flesh >= 0

\* C1 witness: a click whose yield is negative has run on an empty purse, so
\* the setter's clamp is what kept flesh at zero.
C1_Witness ==
    /\ phase = "running"
    /\ op.name = "click"
    /\ effective_fpc(upgrades, state) < 0
    /\ state.flesh = 0
    /\ state.total_clicks >= 5

\* C2: a purchase attempted with less flesh than the cost changes nothing: not
\* the game state, not an achievement, and no save call is made.
C2_RejectedPurchaseIsNoOp ==
    [][\A uid \in DOMAIN upgrades :
          (BuyStep(uid) /\ state.flesh < CostNow(uid))
             => /\ state' = state
                /\ achievements' = achievements
                /\ disk' = disk
                /\ writes' = <<>>]_vars

\* C2 witness: a purchase was attempted with too little flesh.
C2_Witness ==
    /\ phase = "running"
    /\ op.name = "buy"
    /\ state.flesh < CostNow(op.arg)
    /\ writes = <<>>

\* C3: a purchase attempted with at least the cost (the cost exactly included)
\* takes the cost of the owned count before the purchase from flesh, raises
\* that upgrade's count by one and leaves the other counts and the clicks.
C3_PurchaseSucceeds ==
    [][\A uid \in DOMAIN upgrades :
          (BuyStep(uid) /\ state.flesh >= CostNow(uid))
             => /\ state'.flesh = state.flesh - CostNow(uid)
                /\ state'.upgrades_owned =
                      Put(state.upgrades_owned, uid, get_upgrade_count(state, uid) + 1)
                /\ state'.total_clicks = state.total_clicks
                /\ state'.flesh_per_click = state.flesh_per_click]_vars

\* C3 witness: the scenario of the specification: 10 flesh bought the first
\* bigger_clicks, which costs 10.
C3_Witness ==
    /\ phase = "running"
    /\ op = [name |-> "buy", arg |-> "bigger_clicks"]
    /\ loaded.state = SavedTen
    /\ state.flesh = 0
    /\ state.upgrades_owned = [bigger_clicks |-> 1]
    /\ IsUnlocked(achievements, "first_upgrade")

\* The keys of the achievements in memory, on disk, or named by a caller
AllKeys == AchievementKeys \cup UnlockKeys

\* The flag of key in the achievements document on disk
SavedUnlocked(d, key) ==
    /\ d["ACHIEVEMENTS_FILE"].kind = "json"
    /\ IsUnlocked(d["ACHIEVEMENTS_FILE"].data, key)

\* C4: unlocking is one-way.  A flag that is true in memory stays true while
\* the program runs; a flag that is true in the achievements document stays
\* true in the document; and a start-up that finds it true in the document has
\* it true in memory, whatever the mods register.
C4_UnlockIsOneWay ==
    [][\A key \in AllKeys :
          /\ (phase = "running" /\ phase' = "running" /\ IsUnlocked(achievements, key))
                => IsUnlocked(achievements', key)
          /\ SavedUnlocked(disk, key) => SavedUnlocked(disk', key)
          /\ (phase = "off" /\ phase' = "running" /\ SavedUnlocked(disk, key))
                => IsUnlocked(achievements', key)]_vars

\* The step is a call of unlock_achievement(key) by itself
UnlockStep(key) == phase = "running" /\ op'.name = "unlock" /\ op'.arg = key /\ steps' # steps

AchievementsWrite(ach) == [path |-> "ACHIEVEMENTS_FILE", content |-> Json(ach)]

\* C5: unlock is idempotent.  Called with an unknown key or an unlocked one it
\* changes nothing and saves nothing; called with a known locked key it sets
\* the flag, changes no other entry and saves the achievements document once;
\* and a second call right after the first adds no change and no save.
C5_UnlockIdempotent ==
    [][\A key \in AllKeys :
          /\ (UnlockStep(key) /\ (key \notin DOMAIN achievements \/ IsUnlocked(achievements, key)))
                => /\ achievements' = achievements
                   /\ state' = state
                   /\ disk' = disk
                   /\ writes' = <<>>
          /\ (UnlockStep(key) /\ key \in DOMAIN achievements /\ ~IsUnlocked(achievements, key))
                => /\ IsUnlocked(achievements', key)
                   /\ achievements' = [achievements EXCEPT ![key] = Put(@, "unlocked", TRUE)]
                   /\ state' = state
                   /\ writes' = << AchievementsWrite(achievements') >>
          /\ phase = "running"
                => LET once == unlock_achievement(World, key)
                       twice == unlock_achievement(once, key)
                   IN /\ twice = once
                      /\ Len(once.writes) <= 1
                      /\ key \in DOMAIN achievements => IsUnlocked(twice.achievements, key)]_vars

\* C5 witness: unlock was called on a known locked key: the flag is set and
\* the one save call holds the achievements as they now are.
C5_Witness ==
    /\ phase = "running"
    /\ op.name = "unlock"
    /\ op.arg \in DOMAIN achievements
    /\ IsUnlocked(achievements, op.arg)
    /\ writes = << AchievementsWrite(achievements) >>

\* The milestone of each built-in achievement, as the handlers test it
Milestone(key, st) ==
    CASE key = "first_click" -> st.total_clicks >= 1
      [] key = "ten_clicks" -> st.total_clicks >= 10
      [] key = "hundred_clicks" -> st.total_clicks >= 100
      [] key = "first_upgrade" -> total_upgrades_owned(st) >= 1
      [] key = "five_upgrades" -> total_upgrades_owned(st) >= 5
      [] key = "hundred_flesh" -> st.flesh >= Units(100)
      [] OTHER -> st.flesh >= Units(1000)

\* C6: from the default state with every achievement locked, after each click
\* and each successful purchase every built-in achievement whose milestone the
\* game state has reached is unlocked.
C6_MilestonesUnlockedAfterClickOrPurchase ==
    (phase = "running" /\ (op.name = "click" \/ (op.name = "buy" /\ writes # <<>>)))
       => \A key \in AchievementKeys :
             Milestone(key, state) => IsUnlocked(achievements, key)

\* C7: after a passive tick that leaves at least 100 flesh hundred_flesh is
\* unlocked, and after one that leaves at least 1000 thousand_flesh is.
C7_TickChecksFleshMilestones ==
    (phase = "running" /\ op.name = "tick")
       => /\ state.flesh >= Units(100) => IsUnlocked(achievements, "hundred_flesh")
          /\ state.flesh >= Units(1000) => IsUnlocked(achievements, "thousand_flesh")

\* The step is a run of the click handler
ClickStep == phase = "running" /\ op'.name = "click" /\ steps' # steps

\* effectiveClickYield before the click: the base yield plus, over the
\* click-kind upgrades of the catalog, the yield per unit times the owned count
ClickYield ==
    Get(state, "flesh_per_click", Units(1))
       + SumOver([uid \in DOMAIN upgrades |->
                     IF Get(upgrades[uid], "type", "") = "click"
                     THEN Get(upgrades[uid], "fpc", 0) * Get(state.upgrades_owned, uid, 0)
                     ELSE 0],
                 DOMAIN upgrades)

\* What the click of this step adds: the yield, or twice the yield on a critical hit
ClickGain == IF op'.arg = "crit" THEN 2 * ClickYield ELSE ClickYield

\* The scenario of the specification: the first click of a new game, not critical
FirstClickScenario ==
    (state = DEFAULT_STATE /\ op'.arg = "normal")
       => /\ state'.flesh = Units(1)
          /\ state'.total_clicks = 1
          /\ IsUnlocked(achievements', "first_click")

OnCostCurve(uid) ==
    LET u == upgrades[uid]
        cost(n) == get_upgrade_cost(upgrades, uid, n)
    IN (u.base_cost > 0 /\ u.cost_mult.num > u.cost_mult.den)
          => /\ cost(0) = Units(u.base_cost)
             /\ \A n \in 0 .. (MaxLevel - 1) :
                   /\ cost(n) % u.cost_mult.den = 0
                   /\ cost(n + 1) = (cost(n) \div u.cost_mult.den) * u.cost_mult.num
                   /\ cost(n + 1) > cost(n)

\* C9: the cost of every catalog upgrade follows baseCost x costMultiplier^n
\* and grows strictly with n; and a successful purchase of an upgrade of which
\* n >= 1 are owned is charged more than the purchase of the unit before it.
C9_CostCurveStrictlyIncreasing ==
    [][/\ phase = "running" => \A uid \in DOMAIN upgrades : OnCostCurve(uid)
       /\ \A uid \in DOMAIN upgrades :
             (BuyStep(uid) /\ state.flesh >= CostNow(uid))
                => LET n == get_upgrade_count(state, uid)
                       charged == state.flesh - state'.flesh
                   IN /\ charged = CostNow(uid)
                      /\ n >= 1 => charged > get_upgrade_cost(upgrades, uid, n - 1)
                      /\ get_upgrade_count(state', uid) = n + 1]_vars

\* C9 witness: two purchases of bigger_clicks in a row, at 11.5 and at 13.225.
C9_Witness ==
    /\ phase = "running"
    /\ op = [name |-> "buy", arg |-> "bigger_clicks"]
    /\ loaded.state = SavedRich
    /\ get_upgrade_count(state, "bigger_clicks") = 3
    /\ state.flesh = Units(999) - get_upgrade_cost(upgrades, "bigger_clicks", 1)
                                - get_upgrade_cost(upgrades, "bigger_clicks", 2)
    /\ get_upgrade_cost(upgrades, "bigger_clicks", 2) * 40 = Units(529)

\* How load resolves a document from the file at the current path and the
\* file at the legacy path
Resolves(current, legacy, default, result) ==
    /\ current.kind = "json" => result = current.data
    /\ (current.kind # "absent" /\ current.kind # "json") => result = default
    /\ (current.kind = "absent" /\ legacy.kind = "json") => result = legacy.data
    /\ (current.kind = "absent" /\ legacy.kind # "json") => result = default

\* C10: at every start-up, the game-state document and the achievements
\* document that load returns are the parsed current file if it exists and
\* parses, the default if it exists and does not parse (whatever the legacy
\* file holds), the parsed legacy file if the current one is absent and the
\* legacy one exists and parses, and the default otherwise.
C10_LoadResolution ==
    [][(phase = "off" /\ phase' = "running")
          => /\ Resolves(disk["STATE_FILE"], disk["LEGACY_STATE_FILE"],
                         DEFAULT_STATE, loaded'.state)
             /\ Resolves(disk["ACHIEVEMENTS_FILE"], disk["LEGACY_ACHIEVEMENTS_FILE"],
                         DEFAULT_ACHIEVEMENTS, loaded'.achievements)]_vars

\* C10 witness: a start-up found a current game-state file that does not
\* parse beside a legacy one that does, and load returned the default.
C10_Witness ==
    /\ phase = "running"
    /\ op.name = "startup"
    /\ disk["STATE_FILE"] = Corrupt
    /\ disk["LEGACY_STATE_FILE"] = Json(SavedTen)
    /\ loaded.state = DEFAULT_STATE

\* The step is a start-up
StartupStep == phase = "off" /\ phase' = "running"

\* The two documents with a legacy location: the field of loaded, the current
\* path, the legacy path, the default
Documents ==
    { [doc |-> "state", path |-> "STATE_FILE", legacy |-> "LEGACY_STATE_FILE",
       default |-> DEFAULT_STATE],
      [doc |-> "achievements", path |-> "ACHIEVEMENTS_FILE",
       legacy |-> "LEGACY_ACHIEVEMENTS_FILE", default |-> DEFAULT_ACHIEVEMENTS] }

\* C11: at a start-up that finds the current file absent and a legacy file that
\* parses, load returns the legacy content whether the write succeeds or not,
\* and leaves the legacy file as it was; when the write succeeds the current
\* path then holds that content, and a second load returns it from the current
\* path without writing again.
C11_LegacyMigration ==
    [][StartupStep
          => \A f \in Documents :
                (disk[f.path].kind = "absent" /\ disk[f.legacy].kind = "json")
                   => LET again == load_json([state |-> state', achievements |-> achievements',
                                               disk |-> disk', writes |-> <<>>],
                                              f.path, f.default, f.legacy)
                      IN /\ loaded'[f.doc] = disk[f.legacy].data
                         /\ disk'[f.legacy] = disk[f.legacy]
                         /\ again.data = disk[f.legacy].data
                         /\ writable
                               => /\ disk'[f.path] = Json(disk[f.legacy].data)
                                  /\ again.w.writes = <<>>
                                  /\ again.w.disk = disk']_vars

\* C11 witness: a start-up has copied the legacy game state to the current path.
C11_Witness ==
    /\ phase = "running"
    /\ op.name = "startup"
    /\ writable
    /\ loaded.state = SavedTen
    /\ disk["STATE_FILE"] = Json(SavedTen)
    /\ disk["LEGACY_STATE_FILE"] = Json(SavedTen)
    /\ Len(writes) >= 1
    /\ writes[1] = [path |-> "STATE_FILE", content |-> Json(SavedTen)]


\* The game state a start-up builds from the files d: load, default filling,
\* counter seed
Restart(d) ==
    LET w0 == [state |-> DEFAULT_STATE, achievements |-> DEFAULT_ACHIEVEMENTS,
               disk |-> d, writes |-> <<>>]
        r == load_json(w0, "STATE_FILE", DEFAULT_STATE, "LEGACY_STATE_FILE")
    IN SeedFromCounter(FillDefaults(r.data, DEFAULT_STATE), r.w.disk)

\* The last handler was a click, a purchase that went through or a tick with
\* a positive yield: each of them saves the game state
SavedByLastHandler ==
    /\ phase = "running"
    /\ \/ op.name = "click"
       \/ op.name \in {"buy", "tick"} /\ writes # <<>>

TickStep == phase = "running" /\ op'.name = "tick" /\ steps' # steps

\* The step is a click, a purchase that goes through or a tick with a positive yield
MutationStep ==
    \/ ClickStep
    \/ \E uid \in DOMAIN upgrades : BuyStep(uid) /\ state.flesh >= CostNow(uid)
    \/ TickStep /\ compute_fps(upgrades, state) > 0

\* int(value) of a flesh value, which is never negative
IntegerPart(value) == value \div Scale

\* C13: write-through.  Where writes succeed, after every click, every
\* purchase that goes through and every tick with a positive yield the game
\* state file holds the game state in memory and the current counter file
\* holds the integer part of flesh.
C13_WriteThrough ==
    [][(MutationStep /\ writable)
          => /\ disk'["STATE_FILE"] = Json(state')
             /\ disk'["COUNTER_FILE"] = IntText(IntegerPart(state'.flesh))]_vars

\* C13 witness: the second bigger_clicks was bought at 11.5 from 999 flesh:
\* the state file holds the new state and the counter file holds 987.
C13_Witness ==
    /\ phase = "running"
    /\ writable
    /\ op = [name |-> "buy", arg |-> "bigger_clicks"]
    /\ state.flesh = Units(999) - get_upgrade_cost(upgrades, "bigger_clicks", 1)
    /\ get_upgrade_count(state, "bigger_clicks") = 2
    /\ disk["STATE_FILE"] = Json(state)
    /\ disk["COUNTER_FILE"] = IntText(987)


\* The integer a counter file holds, 0 for a file that is absent or unreadable
CounterValue(f) == IF f.kind = "int" THEN f.value ELSE 0

\* The non-zero counter value found by looking at the current counter file
\* first and at the legacy one after it; 0 when neither holds one
NonZeroCounter(d) ==
    IF CounterValue(d["COUNTER_FILE"]) # 0 THEN CounterValue(d["COUNTER_FILE"])
    ELSE CounterValue(d["LEGACY_COUNTER_FILE"])

\* C14: at a start-up whose loaded flesh is zero, a non-zero counter found in
\* the current counter file or else in the legacy one becomes the flesh (a
\* current counter of 0, or an unreadable one, does not hide the legacy one);
\* a loaded flesh other than zero is kept whatever the counters hold.
C14_SeedFromNonZeroCounter ==
    [][StartupStep
          => LET flesh == Get(loaded'.state, "flesh", DEFAULT_STATE.flesh)
             IN /\ (flesh = 0 /\ NonZeroCounter(disk) # 0)
                      => state'.flesh = Units(NonZeroCounter(disk))
                /\ flesh # 0 => state'.flesh = flesh]_vars


\* The environment lacks the endpoint or the access key
Unconfigured == SUPABASE_URL = "" \/ SUPABASE_KEY = ""

\* The answers to the POST requests and to the GET requests of the last call
Answered(method) ==
    LET sent == SelectSeq(exchanges, LAMBDA e : e.method = method)
    IN [i \in 1 .. Len(sent) |-> sent[i].answer]

\* C17: with the endpoint or the access key missing, submit returns a failure
\* whose description is the "not configured" text, fetch returns a failure
\* with that text and no rows, and no request is made.
C17_UnconfiguredFailsWithoutRequest ==
    (phase = "running" /\ Unconfigured)
       => /\ exchanges = <<>>
          /\ returned.submit # None
                => returned.submit = [ok |-> FALSE, info |-> Text(NotConfiguredText)]
          /\ returned.fetch # None
                => returned.fetch = [ok |-> FALSE, error |-> NotConfiguredText, rows |-> <<>>]
          /\ op.name = "add_leaderboard" => returned.submit # None
          /\ op.name \in {"startup", "refresh_leaderboard"} => returned.fetch # None

\* C17 witness: a submission was attempted with the endpoint set and the key missing.
C17_Witness ==
    /\ phase = "running"
    /\ op.name = "add_leaderboard"
    /\ SUPABASE_URL # ""
    /\ SUPABASE_KEY = ""
    /\ returned.submit # None
    /\ ~returned.submit.ok
    /\ exchanges = <<>>

\* C18: submit returns a failure with a description string after a transport
\* error, after a status other than 200 and 201 and after a body that cannot
\* be decoded, and success only for a status of 200 or 201 with a body that
\* decodes.
C18_SubmitFailures ==
    (phase = "running" /\ returned.submit # None /\ ~Unconfigured)
       => LET answers == Answered("POST")
              resp == answers[1]
              good == /\ resp.kind = "response"
                      /\ resp.status_code \in {200, 201}
                      /\ resp.body.json # "none"
          IN /\ Len(answers) = 1
             /\ returned.submit.ok <=> good
             /\ ~returned.submit.ok
                   => returned.submit.info.kind = "str" /\ returned.submit.info.text # ""

\* C19: fetch returns success exactly for a status of 200 with a body that
\* decodes to a list, and then the rows of that list; after a transport error,
\* another status, a body that does not decode or one that is no list it
\* returns a failure with a reason that is not empty and no rows.
C19_FetchSuccessIffList ==
    (phase = "running" /\ returned.fetch # None /\ ~Unconfigured)
       => LET answers == Answered("GET")
              resp == answers[1]
              good == /\ resp.kind = "response"
                      /\ resp.status_code = 200
                      /\ resp.body.json = "list"
          IN /\ Len(answers) = 1
             /\ returned.fetch.ok <=> good
             /\ returned.fetch.ok
                   => returned.fetch.rows = resp.body.rows /\ returned.fetch.error = ""
             /\ ~returned.fetch.ok
                   => returned.fetch.rows = <<>> /\ returned.fetch.error # ""

\* C19 witness: a refresh got a status of 200 with a JSON object and failed.
C19_Witness ==
    /\ phase = "running"
    /\ op.name = "refresh_leaderboard"
    /\ Len(exchanges) = 1
    /\ exchanges[1].answer = Response(200, ObjectBody)
    /\ returned.fetch = [ok |-> FALSE, error |-> "Unexpected response format", rows |-> <<>>]


\* The mod raises, while it is loaded or inside register
Fails(mod) == \E i \in 1 .. Len(mod) : mod[i].fn = "raise"

\* C15: failure isolation.  After a start-up with mods of which some raise,
\* the upgrade catalog and the achievement catalog are those that the mods
\* which do not raise build in the same order: a mod that raises adds
\* nothing, the registrations it made before raising included.
C15_FailingModContributesNothing ==
    [][StartupStep
          => LET listed == op'.arg.system \o op'.arg.user
                 working == SelectSeq(listed, LAMBDA mod : ~Fails(mod))
                 expected ==
                     load_mods([upgrades |-> BASE_UPGRADES,
                                achievements |-> FillDefaults(loaded'.achievements,
                                                              DEFAULT_ACHIEVEMENTS)],
                               working)
             IN /\ phase' = "running"
                /\ upgrades' = expected.upgrades
                /\ achievements' = expected.achievements]_vars

\* The registration calls the mods make
RegistrationCalls ==
    UNION {{mod[i] : i \in 1 .. Len(mod)} : mod \in Mods} \ {Raise}

\* after is before with data registered under id: merged into the definition
\* of id field by field where there is one, inserted otherwise, every other
\* id left as it was
MergedById(before, after, id, data) ==
    /\ DOMAIN after = DOMAIN before \cup {id}
    /\ \A other \in DOMAIN before \ {id} : after[other] = before[other]
    /\ id \notin DOMAIN before => after[id] = data
    /\ id \in DOMAIN before
          => /\ DOMAIN after[id] = DOMAIN before[id] \cup DOMAIN data
             /\ \A k \in DOMAIN data : after[id][k] = data[k]
             /\ \A k \in DOMAIN before[id] \ DOMAIN data : after[id][k] = before[id][k]

\* C16: on every catalog a start-up builds, register_upgrade and
\* register_achievement merge by id: the supplied fields overwrite those of an
\* id that is there and its other fields stay, a new id is inserted, no id is
\* removed, no other id changes, and the other catalog is left alone.
C16_RegistrationMergesById ==
    phase = "running"
       => LET cat == [upgrades |-> upgrades, achievements |-> achievements]
          IN \A c \in RegistrationCalls :
                /\ c.fn = "register_upgrade"
                      => LET after == register_upgrade(cat, c.id, c.data)
                         IN /\ MergedById(cat.upgrades, after.upgrades, c.id, c.data)
                            /\ after.achievements = cat.achievements
                /\ c.fn = "register_achievement"
                      => LET after == register_achievement(cat, c.id, c.data)
                         IN /\ MergedById(cat.achievements, after.achievements, c.id, c.data)
                            /\ after.upgrades = cat.upgrades

\* C16 witness: a start-up ran a mod that lowers the base cost of
\* bigger_clicks and one that renames first_click: the other fields of both
\* definitions are the built-in ones.
C16_Witness ==
    /\ phase = "running"
    /\ op.name = "startup"
    /\ upgrades = [BASE_UPGRADES EXCEPT !["bigger_clicks"].base_cost = 5]
    /\ achievements["first_click"].name = "First Blood"
    /\ DOMAIN achievements = AchievementKeys

\* passiveYieldPerTick: over the auto upgrades of the catalog, the fps per
\* unit times the owned count
PassiveYield ==
    SumOver([uid \in DOMAIN upgrades |->
                IF Get(upgrades[uid], "type", "") = "auto"
                THEN Get(upgrades[uid], "fps", 0) * Get(state.upgrades_owned, uid, 0)
                ELSE 0],
            DOMAIN upgrades)

\* C20: a passive tick adds to flesh the passive yield, to which an upgrade
\* that is not of the auto type adds nothing whatever its fps; it leaves
\* total_clicks, the owned counts and the achievements; and with a yield of
\* zero it changes nothing and makes no save call.
C20_TickAddsPassiveYield ==
    [][TickStep
          => /\ state'.flesh = state.flesh + PassiveYield
             /\ state'.total_clicks = state.total_clicks
             /\ state'.upgrades_owned = state.upgrades_owned
             /\ state'.flesh_per_click = state.flesh_per_click
             /\ PassiveYield = 0
                   => state' = state /\ disk' = disk /\ writes' = <<>>]_vars

\* C20 witness: a tick ran with two meat_hook owned (a click upgrade with an
\* fps of 3) and one auto_clicker_1: flesh went from 50 to 51.
C20_Witness ==
    /\ phase = "running"
    /\ op.name = "tick"
    /\ loaded.state = SavedHooked
    /\ "meat_hook" \in DOMAIN upgrades
    /\ "flesh_farm" \notin DOMAIN upgrades
    /\ state.flesh = Units(51)


\* The owned count of the critical upgrade
CritOwned == Get(state.upgrades_owned, "crit_click", 0)

\* The rolls random.random() can give in the current state, as the click
\* handler's guard has them, and what a click with that roll adds to flesh
Rolls == {crit \in BOOLEAN : CanRoll(state, crit)}
Added(crit) == on_click(World, crit).state.flesh - state.flesh

\* C21: the yield of a click is added once or twice; a doubled click is
\* possible exactly when at least one crit_click is owned and a click that is
\* not doubled exactly when fewer than 20 are owned (never doubled with 0,
\* always doubled with 20 or more, both outcomes with 1 to 19); and every
\* click that happens is one of the possible ones.
C21_CritByOwnedCount ==
    [][/\ phase = "running"
             => /\ ClickYield > 0
                /\ \A crit \in Rolls : Added(crit) \in {ClickYield, 2 * ClickYield}
                /\ (\E crit \in Rolls : Added(crit) = 2 * ClickYield) <=> CritOwned >= 1
                /\ (\E crit \in Rolls : Added(crit) = ClickYield) <=> CritOwned <= 19
       /\ ClickStep
             => /\ CritOwned = 0 => state'.flesh = state.flesh + ClickYield
                /\ CritOwned >= 20 => state'.flesh = state.flesh + 2 * ClickYield
                /\ state'.flesh - state.flesh \in {Added(crit) : crit \in Rolls}]_vars

\* C21 witness: with 19 crit_click owned one click was doubled and the next
\* was not: flesh went from 40 to 42 and then to 43.
C21_Witness ==
    /\ phase = "running"
    /\ op = [name |-> "click", arg |-> "normal"]
    /\ CritOwned = 19
    /\ state.total_clicks = 14
    /\ state.flesh = Units(43)


\* C22: the counter seed is applied only to the default state: a start-up
\* whose loaded state, after default filling, differs from the default in any
\* field keeps that state as it is, its flesh of 0 included.
C22_SeedOnlyForDefaultState ==
    [][StartupStep
          => LET filled == FillDefaults(loaded'.state, DEFAULT_STATE)
             IN filled # DEFAULT_STATE => state' = filled]_vars


\* The calls a mod makes before it raises, and those of a directory's mods
Performed(mod) ==
    LET stops == {i \in 1 .. Len(mod) : mod[i].fn = "raise"}
    IN IF stops = {} THEN mod
       ELSE SubSeq(mod, 1, (CHOOSE i \in stops : \A j \in stops : i <= j) - 1)

RECURSIVE PerformedBy(_)
PerformedBy(mods) ==
    IF mods = <<>> THEN <<>> ELSE Performed(Head(mods)) \o PerformedBy(Tail(mods))

\* call number i of calls supplies field under id, and no later call does
LastSupply(calls, i, fn, id, field) ==
    /\ calls[i].fn = fn /\ calls[i].id = id /\ field \in DOMAIN calls[i].data
    /\ \A j \in i + 1 .. Len(calls) :
          ~(calls[j].fn = fn /\ calls[j].id = id /\ field \in DOMAIN calls[j].data)

\* C23: a start-up runs the mods of the system directory before those of the
\* user directory, so for every id and field that a mod of the user directory
\* supplies, the catalog has the value of the last such call, whatever the
\* mods of the system directory registered under that id.
C23_UserModsOverrideSystemMods ==
    [][StartupStep
          => LET system == op'.arg.system
                 user == op'.arg.user
                 calls == PerformedBy(user)
                 built ==
                     load_mods([upgrades |-> BASE_UPGRADES,
                                achievements |-> FillDefaults(loaded'.achievements,
                                                              DEFAULT_ACHIEVEMENTS)],
                               system \o user)
             IN /\ upgrades' = built.upgrades
                /\ achievements' = built.achievements
                /\ \A i \in 1 .. Len(calls) : \A field \in DOMAIN calls[i].data :
                      /\ LastSupply(calls, i, "register_upgrade", calls[i].id, field)
                            => upgrades'[calls[i].id][field] = calls[i].data[field]
                      /\ LastSupply(calls, i, "register_achievement", calls[i].id, field)
                            => achievements'[calls[i].id][field] = calls[i].data[field]]_vars

\* A start-up with ModDiscount in the system directory and ModSale in the user
\* directory: the cost is ModSale's, the description too
C23_Witness ==
    /\ phase = "running"
    /\ op = [name |-> "startup",
             arg |-> [system |-> <<ModDiscount>>, user |-> <<ModSale>>]]
    /\ upgrades["bigger_clicks"].base_cost = 8
    /\ upgrades["bigger_clicks"].desc = "On sale."
    /\ upgrades["bigger_clicks"].name = "Bigger Clicks"


\* C24: nothing raises over the catalog that the mods leave.  A start-up
\* completes and leaves a catalog in which the cost of every id can be
\* computed, partial definitions included, and a purchase attempt on an id of
\* the catalog either completes (cost deducted, one more owned) or changes
\* nothing.
C24_NoPurchaseOrCostRaises ==
    [][/\ phase = "off" /\ op'.name = "startup"
             => /\ phase' = "running"
                /\ \A uid \in DOMAIN upgrades' : ~get_upgrade_cost_raises(upgrades', uid)
       /\ \A uid \in DOMAIN upgrades :
             BuyStep(uid)
                => \/ /\ state'.flesh = state.flesh - CostNow(uid)
                      /\ get_upgrade_count(state', uid) = get_upgrade_count(state, uid) + 1
                   \/ /\ state' = state
                      /\ achievements' = achievements
                      /\ disk' = disk]_vars


\* A leaderboard call has just returned: the fetch of a start-up, a submit or
\* a refresh
AfterLeaderboardCall ==
    phase = "running" /\ op.name \in {"startup", "add_leaderboard", "refresh_leaderboard"}

\* C25: the tick is never descheduled.  While the window exists the timeout
\* source is registered, every run of the tick handler leaves it registered,
\* and after every leaderboard call (which returns, with a success or a
\* failure) the tick fires again unless the program is quit first.
C25_TickNeverDescheduled ==
    /\ [](phase = "running" => timer = "armed")
    /\ [][op'.name = "tick" => timer' = "armed"]_vars
    /\ AfterLeaderboardCall ~> (op.name = "tick" \/ phase # "running")

\* A tick has fired after a submission that the server refused
C25_Witness ==
    /\ phase = "running"
    /\ op.name = "tick"
    /\ timer = "armed"
    /\ returned.submit # None
    /\ returned.submit.ok = FALSE
    /\ exchanges # <<>>


\* C26: every state document that a click or a purchase writes is the state
\* before the handler or the state after it, never one in between (the yield
\* added without the click counted, the cost deducted without the unit owned).
C26_WrittenStateDocumentsAreComplete ==
    [][(ClickStep \/ \E uid \in DOMAIN upgrades : BuyStep(uid))
          => \A i \in 1 .. Len(writes') :
                writes'[i].path = "STATE_FILE"
                   => writes'[i].content \in {Json(state), Json(state')}]_vars


\* C27: unlock soundness.  A new game starts with every built-in achievement
\* locked, and a step that unlocks one ends in a state where its milestone
\* holds: no achievement is unlocked before its milestone has been reached.
C27_UnlockSoundness ==
    /\ \A key \in AchievementKeys : ~IsUnlocked(achievements, key)
    /\ [][\A key \in AchievementKeys :
             (~IsUnlocked(achievements, key) /\ IsUnlocked(achievements', key))
                => Milestone(key, state')]_vars

\* Ten clicks and then a purchase: ten_clicks and first_upgrade are unlocked,
\* hundred_flesh is not
C27_Witness ==
    /\ phase = "running"
    /\ op.name = "buy"
    /\ state.total_clicks >= 10
    /\ total_upgrades_owned(state) = 1
    /\ IsUnlocked(achievements, "ten_clicks")
    /\ IsUnlocked(achievements, "first_upgrade")
    /\ ~IsUnlocked(achievements, "hundred_flesh")
    /\ ~IsUnlocked(achievements, "hundred_clicks")


=============================================================================
